---- MODULE Spec2Model ----
(***************************************************************************)
(* LinkIdentityWithIDToken (internal/api): linking an external OIDC        *)
(* identity to an authenticated user.  The handler is modelled statement   *)
(* by statement: the part before db.Transaction is local to one request    *)
(* and is one step (PreTx); every storage call inside the transaction is   *)
(* a step of its own, so that concurrent requests interleave between       *)
(* them.  The storage (transaction, uniqueness, user mutators, audit log)  *)
(* is not part of the handler's files and follows its stated contract.     *)
(***************************************************************************)
EXTENDS Naturals, Sequences, FiniteSets, Bags, TLC

\* ---------------------------------------------------------------- bounds
\* Number of requests that can be in flight at the same time.
NumReq == 2
Requests == 1 .. NumReq
\* Longest sequence of audience values and of acceptable client ids.
MaxLen == 3

\* ---------------------------------------------------------------- values
Users == {"U", "V"}
NoUser == "nil"

\* The two definitions of LinkIdentityWithIDToken found in the sources.
Handlers == {"link-identity-token.go", "part_000"}

ProviderTypes == {"google", "apple"}
Subjects == {"s1", "s2"}
\* External accounts that tokens are issued for: (provider type, subject).
Accounts == {<<"google", "s1">>, <<"google", "s2">>, <<"apple", "s1">>}
SameProviderAccounts == {ac \in Accounts : ac[1] = "google"}
SameSubjectAccounts == {ac \in Accounts : ac[2] = "s1"}

Nonces == {"", "abc", "xyz"}

\* userData.Metadata of the token issued for an account (the claim set).
ClaimsOf(acct) ==
    IF acct = <<"google", "s1">> THEN [name |-> "n1"]
    ELSE IF acct = <<"google", "s2">> THEN [name |-> "n2"]
    ELSE [name |-> "n3", email |-> "e3"]

\* The users' metadata before any link.
InitialMetaData(u) ==
    IF u = "U" THEN [plan |-> "free", name |-> "old"] ELSE [plan |-> "pro"]

Range(s) == {s[i] : i \in DOMAIN s}

\* ---------------------------------------------------------------- responses
\* What the handler returns: the helper that built it, its error code and text.
Response(helper, code, msg) == [helper |-> helper, code |-> code, msg |-> msg]

NoResponse == Response("none", "", "")
\* Not a response: the stage found nothing wrong and the handler goes on.
Pass == Response("pass", "", "")

badRequestError(code, msg) == Response("badRequestError", code, msg)
unprocessableEntityError(code, msg) == Response("unprocessableEntityError", code, msg)
unauthorizedError(msg) == Response("unauthorizedError", "", msg)
oauthError(code, msg) == Response("oauthError", code, msg)
internalServerError(msg) == Response("internalServerError", "", msg)
\* An error of a collaborator that the handler returns as it got it.
rawError(from) == Response("error", "", from)
\* sendJSON(w, http.StatusOK, user)
sendJSON == Response("sendJSON", "StatusOK", "")

\* ---------------------------------------------------------------- request inputs
\* The body of a request (IdTokenGrantParams / LinkIdentityWithIDTokenParams).
Params(idToken, provider, clientID, issuer, nonce) ==
    [IdToken |-> idToken, Provider |-> provider, ClientID |-> clientID,
     Issuer |-> issuer, Nonce |-> nonce]

ParamShapes ==
    { <<"tok", "google", "", "">>,      \* named provider
      <<"tok", "", "clientA", "iss">>,  \* client_id and issuer
      <<"", "google", "", "">>,         \* no id_token
      <<"tok", "", "clientA", "">> }    \* no provider, incomplete pair

AcceptableSets == { <<"clientA">>, <<"", "clientB">>, <<"">> }
AudienceSets == { <<"clientA">>, <<"clientB", "clientA">>, <<"">>, <<>> }

\* What the Provider Resolver answers (params.getProvider): an error, or the
\* nonce policy, the provider type and the acceptable client ids.
Resolved(err, skip, providerType, acceptable) ==
    [err |-> err, skipNonceCheck |-> skip, providerType |-> providerType,
     acceptableClientIDs |-> acceptable]

NotResolved == Resolved(TRUE, FALSE, "", <<>>)

\* What the Token Verifier answers (provider.ParseIDToken): an error, or the
\* verified token's audience, nonce and subject.
Verified(err, aud, nonce, subject) ==
    [err |-> err, Audience |-> aud, Nonce |-> nonce, Subject |-> subject]

NotVerified == Verified(TRUE, <<>>, "", "")

\* Everything one request brings with it: the authenticated user of its
\* context, its body, and what the two collaborators answer for it.
Input(user, params, resolved, token) ==
    [user |-> user, params |-> params, resolved |-> resolved, token |-> token]

NoInput == Input(NoUser, Params("", "", "", "", ""), NotResolved, NotVerified)

AllParams ==
    { Params(sh[1], sh[2], sh[3], sh[4], n) : sh \in ParamShapes, n \in Nonces }

\* The collaborators' answers for a token of the given accounts.
Answers(accounts) ==
    { <<NotResolved, NotVerified>> }
    \cup { <<Resolved(FALSE, sk, ac[1], acc), NotVerified>> :
             sk \in BOOLEAN, ac \in accounts, acc \in AcceptableSets }
    \cup { <<Resolved(FALSE, sk, ac[1], acc), Verified(FALSE, aud, tn, ac[2])>> :
             sk \in BOOLEAN, ac \in accounts, acc \in AcceptableSets,
             aud \in AudienceSets, tn \in Nonces }

\* Every combination of context, body and answers, for the accounts of one
\* provider.
AllInputs ==
    { Input(u, p, a[1], a[2]) :
        u \in Users \cup {NoUser}, p \in AllParams, a \in Answers(SameProviderAccounts) }

\* A request that passes every check.
GoodInput(u, ac) ==
    Input(u, Params("tok", "google", "", "", "abc"),
          Resolved(FALSE, FALSE, ac[1], <<"clientA">>),
          Verified(FALSE, <<"clientA">>, "abc", ac[2]))

\* The inputs of the concurrent specification: for every user and every account
\* of one subject a request that passes every check, and three that fail.
CoreInputs ==
    { GoodInput(u, ac) : u \in Users, ac \in SameSubjectAccounts }
    \cup { [GoodInput("U", <<"google", "s1">>) EXCEPT !.user = NoUser],
           [GoodInput("U", <<"google", "s1">>) EXCEPT !.token.Audience = <<"clientB">>],
           [GoodInput("U", <<"google", "s1">>) EXCEPT !.token.Nonce = "xyz"] }

\* Client ids and audience values, the blank one among them.
ClientIDs == {"", "clientA", "clientB"}
SeqsUpTo(S, n) == UNION { [1 .. k -> S] : k \in 0 .. n }

\* The inputs of the audience specification: a request that passes every other
\* check, with every sequence of acceptable client ids and of audience values.
AudienceInputs ==
    { [GoodInput("U", <<"google", "s1">>) EXCEPT
          !.resolved.acceptableClientIDs = acc, !.token.Audience = aud] :
        acc \in SeqsUpTo(ClientIDs, MaxLen), aud \in SeqsUpTo(ClientIDs, MaxLen) }

\* ---------------------------------------------------------------- stages before the transaction
\* if params.IdToken == "" ... ; if params.Provider == "" && (...) ...
ValidateParams(params) ==
    IF params.IdToken = ""
    THEN badRequestError("ErrorCodeValidationFailed", "id_token is required")
    ELSE IF params.Provider = "" /\ (params.ClientID = "" \/ params.Issuer = "")
    THEN badRequestError("ErrorCodeValidationFailed",
                         "provider or client_id and issuer are required")
    ELSE Pass

\* user := getUser(ctx); if user == nil ...
CheckUser(handler, user) ==
    IF user # NoUser THEN Pass
    ELSE IF handler = "link-identity-token.go"
    THEN unprocessableEntityError("ErrorCodeUserNotFound", "Missing authenticated user")
    ELSE unauthorizedError("Missing authenticated user")

\* Mutant: the inner loop accepts the first audience value without comparing.
AudienceLoopNoCompare(Audience, clientID, j) == j <= Len(Audience)

\* for _, aud := range idToken.Audience { if aud == clientID { ... break } }
RECURSIVE AudienceLoop(_, _, _)
AudienceLoop(Audience, clientID, j) ==
    IF j > Len(Audience) THEN FALSE
    ELSE IF Audience[j] = clientID THEN TRUE
    ELSE AudienceLoop(Audience, clientID, j + 1)

\* Mutant: blank client ids are compared like the others.
ClientIDLoopBlankCompared(acceptableClientIDs, Audience, i) ==
    \E k \in i .. Len(acceptableClientIDs) :
        AudienceLoop(Audience, acceptableClientIDs[k], 1)

\* for _, clientID := range acceptableClientIDs { if clientID == "" { continue } ... }
RECURSIVE ClientIDLoop(_, _, _)
ClientIDLoop(acceptableClientIDs, Audience, i) ==
    IF i > Len(acceptableClientIDs) THEN FALSE
    ELSE IF acceptableClientIDs[i] = "" THEN ClientIDLoop(acceptableClientIDs, Audience, i + 1)
    ELSE IF AudienceLoop(Audience, acceptableClientIDs[i], 1) THEN TRUE
    ELSE ClientIDLoop(acceptableClientIDs, Audience, i + 1)

correctAudience(acceptableClientIDs, Audience) ==
    ClientIDLoop(acceptableClientIDs, Audience, 1)

\* Mutant: a token that carries no nonce is let through.
NonceRejectedUnlessTokenHasNone(skipNonceCheck, paramsNonce, idTokenNonce) ==
    ~skipNonceCheck /\ paramsNonce # "" /\ idTokenNonce # "" /\ paramsNonce # idTokenNonce

\* Mutant: the resolver's skip flag is not consulted.
NonceRejectedIgnoringSkip(skipNonceCheck, paramsNonce, idTokenNonce) ==
    paramsNonce # "" /\ paramsNonce # idTokenNonce

\* if !skipNonceCheck && params.Nonce != "" { if params.Nonce != idToken.Nonce {
NonceRejected(skipNonceCheck, paramsNonce, idTokenNonce) ==
    ~skipNonceCheck /\ paramsNonce # "" /\ paramsNonce # idTokenNonce

InvalidNonceError(handler) ==
    IF handler = "link-identity-token.go"
    THEN oauthError("invalid_nonce", "Invalid nonce")
    ELSE oauthError("invalid_request", "Invalid nonce")

\* Mutant: the nonce check is missing from the stages before the transaction.
PolicyChecksWithoutNonce(handler, in) ==
    IF in.resolved.err THEN rawError("getProvider")
    ELSE IF in.token.err THEN oauthError("invalid_request", "Bad ID token")
    ELSE IF ~correctAudience(in.resolved.acceptableClientIDs, in.token.Audience)
    THEN oauthError("invalid_request", "Unacceptable audience in id_token")
    ELSE Pass

\* Mutant: the nonce is checked before the audience.
PolicyChecksNonceFirst(handler, in) ==
    IF in.resolved.err THEN rawError("getProvider")
    ELSE IF in.token.err THEN oauthError("invalid_request", "Bad ID token")
    ELSE IF NonceRejected(in.resolved.skipNonceCheck, in.params.Nonce, in.token.Nonce)
    THEN InvalidNonceError(handler)
    ELSE IF ~correctAudience(in.resolved.acceptableClientIDs, in.token.Audience)
    THEN oauthError("invalid_request", "Unacceptable audience in id_token")
    ELSE Pass

\* getProvider, ParseIDToken, the audience loop and the nonce check.
PolicyChecks(handler, in) ==
    IF in.resolved.err THEN rawError("getProvider")
    ELSE IF in.token.err THEN oauthError("invalid_request", "Bad ID token")
    ELSE IF ~correctAudience(in.resolved.acceptableClientIDs, in.token.Audience)
    THEN oauthError("invalid_request", "Unacceptable audience in id_token")
    ELSE IF NonceRejected(in.resolved.skipNonceCheck, in.params.Nonce, in.token.Nonce)
    THEN InvalidNonceError(handler)
    ELSE Pass

\* The handler from its first statement to db.Transaction: the response it
\* returns, or Pass when it reaches the transaction.
PreTxResult(handler, in) ==
    IF handler = "link-identity-token.go"
    THEN IF CheckUser(handler, in.user) # Pass THEN CheckUser(handler, in.user)
         ELSE IF ValidateParams(in.params) # Pass THEN ValidateParams(in.params)
         ELSE PolicyChecks(handler, in)
    ELSE IF ValidateParams(in.params) # Pass THEN ValidateParams(in.params)
         ELSE IF CheckUser(handler, in.user) # Pass THEN CheckUser(handler, in.user)
         ELSE PolicyChecks(handler, in)

\* ---------------------------------------------------------------- state
VARIABLES
    handler,     \* which definition of LinkIdentityWithIDToken the build holds
    users,       \* committed users table: metadata and provider list per user
    identities,  \* committed identities table: a bag of rows
    audit,       \* committed audit log, in commit order
    req          \* the requests in flight: the handler's locals and position

vars == <<handler, users, identities, audit, req>>

\* A *models.User as the handler holds it in memory.
UserObject(id, metadata, providers) ==
    [ID |-> id, UserMetaData |-> metadata, Providers |-> providers]

EmptyMap == [k \in {} |-> ""]
NoUserObject == UserObject(NoUser, EmptyMap, <<>>)

\* getUser(ctx): the authenticated user as loaded for this request.
getUser(id) ==
    IF id = NoUser THEN NoUserObject
    ELSE UserObject(id, users[id].UserMetaData, users[id].Providers)

\* What a transaction has written and not yet committed.
EmptyTx == [identities |-> <<>>, UserMetaData |-> <<>>, Providers |-> <<>>, audit |-> <<>>]

NoIdentity == [ID |-> <<>>, UserID |-> NoUser, Provider |-> "", ProviderID |-> ""]

\* No request in flight; resp and body are the response to the last one, and
\* terr is the error its lookup returned, if it made one.
IdleRequest(resp, body) ==
    [pc |-> "idle", in |-> NoInput, user |-> NoUserObject, providerType |-> "",
     Subject |-> "", terr |-> "nil", newIdentity |-> NoIdentity, tx |-> EmptyTx,
     resp |-> resp, body |-> body]

Init ==
    /\ handler \in Handlers
    /\ users = [u \in Users |-> [UserMetaData |-> InitialMetaData(u), Providers |-> <<"email">>]]
    /\ identities = EmptyBag
    /\ audit = <<>>
    /\ req = [r \in Requests |-> IdleRequest(NoResponse, NoUserObject)]

\* ---------------------------------------------------------------- storage
\* Mutant: the lookup never sees a row.
FindIdentityByIdAndProviderSeesNothing(subject, providerType) == {}

\* models.FindIdentityByIdAndProvider(tx, subject, providerType): the rows that
\* match, as a read-committed transaction sees them.
FindIdentityByIdAndProvider(subject, providerType) ==
    { row \in BagToSet(identities) :
        row.ProviderID = subject /\ row.Provider = providerType }

\* Mutant: the storage without its uniqueness guard.
UniqueViolationNeverRaised(row) == FALSE

\* The storage's uniqueness guard on (provider, provider-subject).
UniqueViolation(row) ==
    FindIdentityByIdAndProvider(row.ProviderID, row.Provider) # {}

\* models.NewIdentity(user, providerType, identityData); the row's uuid is
\* written as the triple it is generated for.
NewIdentity(user, providerType, subject) ==
    [ID |-> <<user.ID, providerType, subject>>, UserID |-> user.ID,
     Provider |-> providerType, ProviderID |-> subject]

\* Mutant: a key the user already has keeps its value.
MergeMetaDataKeepsExisting(metadata, data) ==
    [k \in DOMAIN metadata \cup DOMAIN data |->
        IF k \in DOMAIN metadata THEN metadata[k] ELSE data[k]]

\* user.UpdateUserMetaData: new keys inserted, existing keys overwritten.
MergeMetaData(metadata, data) ==
    [k \in DOMAIN metadata \cup DOMAIN data |->
        IF k \in DOMAIN data THEN data[k] ELSE metadata[k]]

\* user.UpdateAppMetaDataProviders: the provider type appended if absent.
AddProvider(providers, providerType) ==
    IF providerType \in Range(providers) THEN providers
    ELSE Append(providers, providerType)

\* models.NewAuditLogEntry(r, tx, user, action, "", traits)
AuditEntry(h, user, providerType, newIdentity) ==
    IF h = "link-identity-token.go"
    THEN [actor |-> user.ID, action |-> "UserModifiedAction",
          provider |-> providerType, identity_id |-> <<>>]
    ELSE [actor |-> user.ID, action |-> "IdentityLinkAction",
          provider |-> providerType, identity_id |-> newIdentity.ID]

\* ---------------------------------------------------------------- the handler
\* return <error>: the request ends, its transaction (if any) is rolled back.
Return(r, resp) ==
    req' = [req EXCEPT ![r] = IdleRequest(resp, NoUserObject)]

Committed == <<users, identities, audit>>

\* A request arrives with its context and body.
Receive(r, inputs) ==
    /\ req[r].pc = "idle"
    /\ \E in \in inputs :
        req' = [req EXCEPT ![r] =
                  [IdleRequest(NoResponse, NoUserObject) EXCEPT
                      !.pc = "received", !.in = in, !.user = getUser(in.user)]]
    /\ UNCHANGED <<handler, Committed>>

\* Everything up to db.Transaction.
PreTx(r) ==
    /\ req[r].pc = "received"
    /\ LET res == PreTxResult(handler, req[r].in) IN
         IF res # Pass
         THEN Return(r, res)
         ELSE req' = [req EXCEPT ![r].pc = "tx_find",
                                 ![r].providerType = req[r].in.resolved.providerType,
                                 ![r].Subject = req[r].in.token.Subject]
    /\ UNCHANGED <<handler, Committed>>

\* Mutant: every conflict is reported as the requesting user's own identity.
IdentityConflictAlwaysThisUser(identity, user) ==
    unprocessableEntityError("ErrorCodeIdentityAlreadyExists",
                             "Identity is already linked to this user")

\* Mutant: the owner comparison is inverted.
IdentityConflictInverted(identity, user) ==
    IF identity.UserID # user.ID
    THEN unprocessableEntityError("ErrorCodeIdentityAlreadyExists",
                                  "Identity is already linked to this user")
    ELSE unprocessableEntityError("ErrorCodeIdentityAlreadyExists",
                                  "Identity is already linked to another user")

\* if identity != nil { if identity.UserID == user.ID { ... } ... }
IdentityConflict(identity, user) ==
    IF identity.UserID = user.ID
    THEN unprocessableEntityError("ErrorCodeIdentityAlreadyExists",
                                  "Identity is already linked to this user")
    ELSE unprocessableEntityError("ErrorCodeIdentityAlreadyExists",
                                  "Identity is already linked to another user")

\* What models.FindIdentityByIdAndProvider can return when the rows that match
\* are those given: the row and no error, no row and the not-found error, or
\* no row and another error.
LookupOutcomes(found) ==
    { <<row, "nil">> : row \in found }
    \cup (IF found = {} THEN { <<NoIdentity, "IdentityNotFoundError">> } ELSE {})
    \cup { <<NoIdentity, "other">> }

IsNotFoundError(terr) == terr = "IdentityNotFoundError"

\* Mutant: a row that the lookup found is not looked at.
AfterLookupRowNotLookedAt(identity, terr, user) ==
    IF terr # "nil" /\ ~IsNotFoundError(terr)
    THEN internalServerError("Database error finding identity")
    ELSE Pass

\* Mutant: the lookup's error is not looked at.
AfterLookupErrorNotLookedAt(identity, terr, user) ==
    IF identity # NoIdentity THEN IdentityConflict(identity, user)
    ELSE Pass

\* if terr != nil { if !models.IsNotFoundError(terr) { return ... } }
\* if identity != nil { ... }
AfterLookup(identity, terr, user) ==
    IF terr # "nil" /\ ~IsNotFoundError(terr)
    THEN internalServerError("Database error finding identity")
    ELSE IF identity # NoIdentity THEN IdentityConflict(identity, user)
    ELSE Pass

\* The transaction opens; FindIdentityByIdAndProvider, the conflict check and
\* models.NewIdentity.
TxFind(r) ==
    /\ req[r].pc = "tx_find"
    /\ \E out \in LookupOutcomes(FindIdentityByIdAndProvider(req[r].Subject,
                                                             req[r].providerType)) :
         LET res == AfterLookup(out[1], out[2], req[r].user) IN
           \/ /\ res # Pass
              /\ req' = [req EXCEPT ![r] =
                            [IdleRequest(res, NoUserObject) EXCEPT !.terr = out[2]]]
           \/ /\ res = Pass
              /\ \/ Return(r, rawError("NewIdentity"))
                 \/ req' = [req EXCEPT
                              ![r].pc = "tx_create",
                              ![r].terr = out[2],
                              ![r].newIdentity =
                                  NewIdentity(req[r].user, req[r].providerType,
                                              req[r].Subject)]
    /\ UNCHANGED <<handler, Committed>>

\* tx.Create(newIdentity)
TxCreate(r) ==
    /\ req[r].pc = "tx_create"
    /\ \/ Return(r, internalServerError("Error creating identity"))
       \/ /\ UniqueViolation(req[r].newIdentity)
          /\ Return(r, internalServerError("Error creating identity"))
       \/ /\ ~UniqueViolation(req[r].newIdentity)
          /\ req' = [req EXCEPT ![r].pc = "tx_meta",
                                ![r].tx.identities = <<req[r].newIdentity>>]
    /\ UNCHANGED <<handler, Committed>>

\* user.UpdateUserMetaData(tx, identityData)
TxUpdateUserMetaData(r) ==
    /\ req[r].pc = "tx_meta"
    /\ \/ Return(r, internalServerError("Error updating user metadata"))
       \/ LET merged == MergeMetaData(req[r].user.UserMetaData,
                                      ClaimsOf(<<req[r].providerType, req[r].Subject>>)) IN
            req' = [req EXCEPT ![r].pc = "tx_providers",
                               ![r].user.UserMetaData = merged,
                               ![r].tx.UserMetaData = <<merged>>]
    /\ UNCHANGED <<handler, Committed>>

\* Mutant: the call that updates the provider list is left out.
TxWithoutAppMetaDataProviders(r) ==
    /\ req[r].pc = "tx_providers"
    /\ req' = [req EXCEPT ![r].pc = "tx_audit"]
    /\ UNCHANGED <<handler, Committed>>

\* user.UpdateAppMetaDataProviders(tx)
TxUpdateAppMetaDataProviders(r) ==
    /\ req[r].pc = "tx_providers"
    /\ \/ Return(r, internalServerError("Error updating user providers"))
       \/ LET providers == AddProvider(req[r].user.Providers, req[r].providerType) IN
            req' = [req EXCEPT ![r].pc = "tx_audit",
                               ![r].user.Providers = providers,
                               ![r].tx.Providers = <<providers>>]
    /\ UNCHANGED <<handler, Committed>>

\* Mutant: the error of the audit write is ignored and the closure goes on.
TxAuditErrorIgnored(r) ==
    /\ req[r].pc = "tx_audit"
    /\ \/ req' = [req EXCEPT ![r].pc = "tx_commit"]
       \/ req' = [req EXCEPT
                    ![r].pc = "tx_commit",
                    ![r].tx.audit = <<AuditEntry(handler, req[r].user, req[r].providerType,
                                                 req[r].newIdentity)>>]
    /\ UNCHANGED <<handler, Committed>>

\* Mutant: the closure returns nil without writing the audit entry.
TxAuditLeftOut(r) ==
    /\ req[r].pc = "tx_audit"
    /\ req' = [req EXCEPT ![r].pc = "tx_commit"]
    /\ UNCHANGED <<handler, Committed>>

\* models.NewAuditLogEntry(r, tx, user, ...)
TxAudit(r) ==
    /\ req[r].pc = "tx_audit"
    /\ \/ Return(r, rawError("NewAuditLogEntry"))
       \/ req' = [req EXCEPT
                    ![r].pc = "tx_commit",
                    ![r].tx.audit = <<AuditEntry(handler, req[r].user, req[r].providerType,
                                                 req[r].newIdentity)>>]
    /\ UNCHANGED <<handler, Committed>>

\* The closure returned nil: the transaction commits everything it wrote, or
\* nothing when the storage refuses the commit.
TxCommit(r) ==
    /\ req[r].pc = "tx_commit"
    /\ LET tx == req[r].tx
           u == req[r].user.ID
           refused == \E i \in DOMAIN tx.identities : UniqueViolation(tx.identities[i])
       IN
         \/ /\ Return(r, rawError("Transaction"))
            /\ UNCHANGED Committed
         \/ /\ refused
            /\ Return(r, rawError("Transaction"))
            /\ UNCHANGED Committed
         \/ /\ ~refused
            /\ identities' = identities (+) SetToBag(Range(tx.identities))
            /\ users' = [users EXCEPT
                           ![u].UserMetaData =
                               IF tx.UserMetaData = <<>> THEN @ ELSE tx.UserMetaData[1],
                           ![u].Providers =
                               IF tx.Providers = <<>> THEN @ ELSE tx.Providers[1]]
            /\ audit' = audit \o tx.audit
            /\ req' = [req EXCEPT ![r] = IdleRequest(sendJSON, req[r].user)]
    /\ UNCHANGED handler

Handle(r) ==
    \/ PreTx(r)
    \/ TxFind(r)
    \/ TxCreate(r)
    \/ TxUpdateUserMetaData(r)
    \/ TxUpdateAppMetaDataProviders(r)
    \/ TxAudit(r)
    \/ TxCommit(r)

\* Concurrent requests.
Next ==
    \E r \in Requests : Receive(r, CoreInputs) \/ Handle(r)

Spec == Init /\ [][Next]_vars

\* One request at a time, with every combination of inputs.
NextSeq ==
    Receive(1, AllInputs) \/ Handle(1)

SpecSeq == Init /\ [][NextSeq]_vars

\* One request at a time, with every pair of sequences the audience loops
\* can be given.
NextAudience ==
    Receive(1, AudienceInputs) \/ Handle(1)

SpecAudience == Init /\ [][NextAudience]_vars

\* ---------------------------------------------------------------- properties
TxSteps == {"tx_find", "tx_create", "tx_meta", "tx_providers", "tx_audit", "tx_commit"}

\* The committed rows of one external account.
KeyRows(table, providerType, subject) ==
    { row \in BagToSet(table) : row.Provider = providerType /\ row.ProviderID = subject }

ThisUserError ==
    unprocessableEntityError("ErrorCodeIdentityAlreadyExists",
                             "Identity is already linked to this user")
AnotherUserError ==
    unprocessableEntityError("ErrorCodeIdentityAlreadyExists",
                             "Identity is already linked to another user")
LookupError == internalServerError("Database error finding identity")
UnacceptableAudienceError ==
    oauthError("invalid_request", "Unacceptable audience in id_token")

\* The errors a step of the transaction can end the request with.
StepErrors(pc) ==
    IF pc = "tx_find"
    THEN {LookupError, ThisUserError, AnotherUserError, rawError("NewIdentity")}
    ELSE IF pc = "tx_create" THEN {internalServerError("Error creating identity")}
    ELSE IF pc = "tx_meta" THEN {internalServerError("Error updating user metadata")}
    ELSE IF pc = "tx_providers" THEN {internalServerError("Error updating user providers")}
    ELSE IF pc = "tx_audit" THEN {rawError("NewAuditLogEntry")}
    ELSE IF pc = "tx_commit" THEN {rawError("Transaction")}
    ELSE {}

\* The errors of the stages before the transaction.
PolicyErrors ==
    { badRequestError("ErrorCodeValidationFailed", "id_token is required"),
      badRequestError("ErrorCodeValidationFailed",
                      "provider or client_id and issuer are required"),
      rawError("getProvider"),
      oauthError("invalid_request", "Bad ID token"),
      UnacceptableAudienceError,
      oauthError("invalid_nonce", "Invalid nonce"),
      oauthError("invalid_request", "Invalid nonce") }

MissingUserErrors ==
    { unprocessableEntityError("ErrorCodeUserNotFound", "Missing authenticated user"),
      unauthorizedError("Missing authenticated user") }

\* The request's body is well formed.
ParamsValid(params) ==
    /\ params.IdToken # ""
    /\ params.Provider # "" \/ (params.ClientID # "" /\ params.Issuer # "")

\* The request is authenticated, well formed, resolved and its token verified.
Verifiable(in) ==
    in.user # NoUser /\ ParamsValid(in.params) /\ ~in.resolved.err /\ ~in.token.err

\* Some non-blank acceptable client id is among the token's audience values.
AudienceMatches(in) ==
    \E c \in Range(in.resolved.acceptableClientIDs) \cap Range(in.token.Audience) : c # ""

\* Nonce checking is required and the request's nonce is not the token's.
NonceMismatch(in) ==
    /\ ~in.resolved.skipNonceCheck
    /\ in.params.Nonce # ""
    /\ in.params.Nonce # in.token.Nonce

\* C1: the committed identities table never holds two rows with the same
\* (provider type, provider subject) pair, whatever the interleaving of requests.
C1_UniqueIdentities ==
    \A p \in ProviderTypes, s \in Subjects :
        /\ Cardinality(KeyRows(identities, p, s)) <= 1
        /\ \A row \in KeyRows(identities, p, s) : CopiesIn(row, identities) = 1

\* Two requests for one account both found nothing; one has committed and the
\* other is about to commit its own row.
C1_Witness ==
    \E r \in Requests :
        /\ req[r].pc = "tx_commit"
        /\ KeyRows(identities, req[r].providerType, req[r].Subject) # {}

\* C2: a request whose lookup finds the account's identity owned by another
\* user ends at once with "already linked to another user"; it has written
\* nothing and the committed state is unchanged.
C2_OtherOwnerRejected ==
    [][\A r \in Requests :
          ( /\ req[r].pc = "tx_find"
            /\ req'[r] # req[r]
            /\ \E row \in KeyRows(identities, req[r].providerType, req[r].Subject) :
                   row.UserID # req[r].user.ID
            /\ req'[r].resp # LookupError )
          => ( /\ req'[r].pc = "idle"
               /\ req'[r].resp = AnotherUserError
               /\ req[r].tx = EmptyTx
               /\ req'[r].tx = EmptyTx
               /\ UNCHANGED Committed )]_vars

C2_Witness ==
    \E r \in Requests :
        /\ req[r].resp = AnotherUserError
        /\ BagCardinality(identities) = 1
        /\ Len(audit) = 1

\* C3: a request whose lookup finds the account's identity owned by the
\* requesting user ends at once with "already linked to this user"; it has
\* written nothing and the committed state is unchanged.
C3_OwnIdentityRejected ==
    [][\A r \in Requests :
          ( /\ req[r].pc = "tx_find"
            /\ req'[r] # req[r]
            /\ \E row \in KeyRows(identities, req[r].providerType, req[r].Subject) :
                   row.UserID = req[r].user.ID
            /\ req'[r].resp # LookupError )
          => ( /\ req'[r].pc = "idle"
               /\ req'[r].resp = ThisUserError
               /\ req[r].tx = EmptyTx
               /\ req'[r].tx = EmptyTx
               /\ UNCHANGED Committed )]_vars

C3_Witness ==
    \E r \in Requests :
        /\ req[r].resp = ThisUserError
        /\ BagCardinality(identities) = 1
        /\ Len(audit) = 1

\* C4: a step of the transaction that fails ends the request with that step's
\* error, discards what the transaction wrote and leaves the committed state
\* as it is; the committed state changes only when a transaction commits the
\* identity, the metadata, the provider list and the audit entry together.
C4_AllOrNothing ==
    [][/\ \A r \in Requests :
            (req[r].pc \in TxSteps /\ req'[r].pc = "idle" /\ req'[r].resp # sendJSON)
            => ( /\ req'[r].resp \in StepErrors(req[r].pc)
                 /\ req'[r].tx = EmptyTx
                 /\ UNCHANGED Committed )
       /\ (Committed' # Committed)
            => \E r \in Requests :
                 LET tx == req[r].tx IN
                   /\ req[r].pc = "tx_commit"
                   /\ req'[r].resp = sendJSON
                   /\ Len(tx.identities) = 1 /\ Len(tx.UserMetaData) = 1
                   /\ Len(tx.Providers) = 1 /\ Len(tx.audit) = 1
                   /\ identities' = identities (+) SetToBag({tx.identities[1]})
                   /\ users'[req[r].user.ID] =
                        [UserMetaData |-> tx.UserMetaData[1], Providers |-> tx.Providers[1]]
                   /\ audit' = Append(audit, tx.audit[1])]_vars

\* The audit write failed after the three other writes, and none of them is
\* in the committed state.
C4_Witness ==
    \E r \in Requests :
        /\ req[r].resp = rawError("NewAuditLogEntry")
        /\ identities = EmptyBag
        /\ audit = <<>>
        /\ \A u \in Users :
             users[u] = [UserMetaData |-> InitialMetaData(u), Providers |-> <<"email">>]

\* C5: a verifiable request whose token's audience values and the acceptable
\* client ids have no element in common ends before the transaction with
\* "Unacceptable audience", whatever its nonce, the nonce policy and the
\* identities that exist; the committed state is unchanged.
C5_AudienceEnforced ==
    [][\A r \in Requests :
          ( /\ req[r].pc = "received"
            /\ req'[r] # req[r]
            /\ Verifiable(req[r].in)
            /\ Range(req[r].in.token.Audience)
                 \cap Range(req[r].in.resolved.acceptableClientIDs) = {} )
          => ( /\ req'[r].pc = "idle"
               /\ req'[r].resp = UnacceptableAudienceError
               /\ req'[r].tx = EmptyTx
               /\ UNCHANGED Committed )]_vars

C5_Witness ==
    \E r \in Requests :
        /\ req[r].resp = UnacceptableAudienceError
        /\ identities # EmptyBag

\* C6: a verifiable request that passed the audience check, with nonce checking
\* required and a request nonce that differs from the token's, ends before the
\* transaction with the "Invalid nonce" error; the committed state is unchanged.
C6_NonceEnforced ==
    [][\A r \in Requests :
          ( /\ req[r].pc = "received"
            /\ req'[r] # req[r]
            /\ Verifiable(req[r].in)
            /\ AudienceMatches(req[r].in)
            /\ NonceMismatch(req[r].in) )
          => ( /\ req'[r].pc = "idle"
               /\ req'[r].resp.helper = "oauthError"
               /\ req'[r].resp.msg = "Invalid nonce"
               /\ req'[r].tx = EmptyTx
               /\ UNCHANGED Committed )]_vars

C6_Witness ==
    \E r \in Requests :
        /\ req[r].resp.helper = "oauthError"
        /\ req[r].resp.msg = "Invalid nonce"

\* C7: when the resolver allows skipping the nonce check, or the request
\* supplies no nonce, a verifiable request that passed the audience check
\* enters the transaction whatever nonce the token carries.
C7_NonceSkipped ==
    [][\A r \in Requests :
          ( /\ req[r].pc = "received"
            /\ req'[r] # req[r]
            /\ Verifiable(req[r].in)
            /\ AudienceMatches(req[r].in)
            /\ req[r].in.resolved.skipNonceCheck \/ req[r].in.params.Nonce = "" )
          => ( /\ req'[r].pc = "tx_find"
               /\ req'[r].resp = NoResponse )]_vars

\* A request whose nonce differs from the token's, under a policy that skips
\* the check, has gone through every step of the transaction.
C7_Witness ==
    \E r \in Requests :
        /\ req[r].pc = "tx_commit"
        /\ req[r].in.resolved.skipNonceCheck
        /\ req[r].in.params.Nonce # ""
        /\ req[r].in.token.Nonce # ""
        /\ req[r].in.params.Nonce # req[r].in.token.Nonce

\* C8: a request whose identity insertion the storage refuses for a
\* (provider, provider-subject) uniqueness violation is answered with
\* IdentityAlreadyExists, and the committed state is unchanged.
C8_UniquenessViolationIsConflict ==
    [][\A r \in Requests :
          ( /\ req[r].pc \in {"tx_create", "tx_commit"}
            /\ UniqueViolation(req[r].newIdentity)
            /\ req'[r].pc = "idle" )
          => ( /\ req'[r].resp.code = "ErrorCodeIdentityAlreadyExists"
               /\ UNCHANGED Committed )]_vars

\* C9: a request for which a stage before the transaction fails ends in that
\* very step with a policy (or missing-user) error, and a request that ends
\* with a policy error was never in a transaction; in both cases the committed
\* state is unchanged.
C9_PolicyFailuresBeforeTx ==
    [][\A r \in Requests :
          /\ ( /\ req[r].pc = "received"
               /\ req'[r] # req[r]
               /\ \/ ~ParamsValid(req[r].in.params)
                  \/ req[r].in.resolved.err
                  \/ req[r].in.token.err
                  \/ ~AudienceMatches(req[r].in)
                  \/ NonceMismatch(req[r].in) )
             => ( /\ req'[r].pc = "idle"
                  /\ req'[r].resp \in PolicyErrors \cup MissingUserErrors
                  /\ req'[r].tx = EmptyTx
                  /\ UNCHANGED Committed )
          /\ ( /\ req[r].pc # "idle"
               /\ req'[r].pc = "idle"
               /\ req'[r].resp \in PolicyErrors )
             => ( /\ req[r].pc = "received"
                  /\ req[r].tx = EmptyTx
                  /\ UNCHANGED Committed )]_vars

C9_Witness ==
    \E r \in Requests :
        /\ req[r].resp = oauthError("invalid_request", "Bad ID token")
        /\ identities # EmptyBag

\* C10: a request that reaches the commit holds all four writes, and when it
\* succeeds it is answered with the mutated user and the committed state gains
\* exactly one identity for the account, owned by the requesting user, the
\* provider type in that user's provider list, and exactly one audit entry.
C10_SuccessfulLink ==
    /\ [](\A r \in Requests :
            req[r].pc = "tx_commit" =>
              /\ req[r].tx.identities =
                   << [ID |-> req[r].newIdentity.ID, UserID |-> req[r].user.ID,
                       Provider |-> req[r].providerType, ProviderID |-> req[r].Subject] >>
              /\ Len(req[r].tx.UserMetaData) = 1
              /\ Len(req[r].tx.Providers) = 1
              /\ Len(req[r].tx.audit) = 1)
    /\ [][\A r \in Requests :
            (req[r].pc = "tx_commit" /\ req'[r].pc = "idle" /\ req'[r].resp = sendJSON)
            => LET u == req[r].user.ID
                   p == req[r].providerType
                   s == req[r].Subject
               IN
                 /\ KeyRows(identities, p, s) = {}
                 /\ \E row \in KeyRows(identities', p, s) :
                      /\ KeyRows(identities', p, s) = {row}
                      /\ row.UserID = u
                      /\ CopiesIn(row, identities') = 1
                 /\ BagCardinality(identities') = BagCardinality(identities) + 1
                 /\ p \in Range(users'[u].Providers)
                 /\ Len(audit') = Len(audit) + 1
                 /\ SubSeq(audit', 1, Len(audit)) = audit
                 /\ audit'[Len(audit')].actor = u
                 /\ audit'[Len(audit')].provider = p
                 /\ req'[r].body = UserObject(u, users'[u].UserMetaData, users'[u].Providers)
                 /\ \A v \in Users \ {u} : users'[v] = users[v]]_vars

C10_Witness ==
    \E r \in Requests :
        /\ req[r].resp = sendJSON
        /\ req[r].body.ID = "U"
        /\ BagCardinality(identities) = 1
        /\ Len(audit) = 1

\* The identities of one user and provider type, and the audit entries of that
\* actor and provider type.
IdentitiesOf(u, p) ==
    { row \in BagToSet(identities) : row.UserID = u /\ row.Provider = p }
AuditEntriesOf(u, p) ==
    { i \in DOMAIN audit : audit[i].actor = u /\ audit[i].provider = p }

\* C11: in every committed state the identities and the audit entries
\* correspond one to one: there are as many of each, for every user and provider
\* type as many identities owned as audit entries written, and no row is held
\* twice; a step of any request leaves the audit log as it is or appends to it.
C11_IdentitiesMatchAudit ==
    /\ [](/\ BagCardinality(identities) = Len(audit)
          /\ \A row \in BagToSet(identities) : CopiesIn(row, identities) = 1
          /\ \A u \in Users, p \in ProviderTypes :
                Cardinality(IdentitiesOf(u, p)) = Cardinality(AuditEntriesOf(u, p))
          /\ \A i \in DOMAIN audit : audit[i].actor \in Users)
    /\ [][/\ Len(audit') >= Len(audit)
          /\ SubSeq(audit', 1, Len(audit)) = audit
          /\ (audit' = audit) <=> (identities' = identities)]_vars

\* Two links are committed and a third request was rolled back after it had
\* inserted its identity.
C11_Witness ==
    /\ BagCardinality(identities) = 2
    /\ Len(audit) = 2
    /\ \E r \in Requests :
          req[r].resp \in { internalServerError("Error updating user metadata"),
                            internalServerError("Error updating user providers"),
                            rawError("NewAuditLogEntry"), rawError("Transaction") }

\* C12: a request that arrives without an authenticated user is answered with
\* the missing-user error whatever its body is, before provider resolution and
\* token verification, and the committed state is unchanged.
C12_MissingUserRejected ==
    [][\A r \in Requests :
          ( /\ req[r].pc = "received"
            /\ req'[r] # req[r]
            /\ req[r].in.user = NoUser )
          => ( /\ req'[r].pc = "idle"
               /\ req'[r].resp \in MissingUserErrors
               /\ req'[r].tx = EmptyTx
               /\ UNCHANGED Committed )]_vars

\* C13: every committed audit entry records the acting user, a link-specific
\* action kind (not the generic "user modified" one), the id of a committed
\* identity of that user and provider type, and the provider type.
C13_AuditEntryContent ==
    \A i \in DOMAIN audit :
        /\ audit[i].actor \in Users
        /\ audit[i].action = "IdentityLinkAction"
        /\ audit[i].provider \in ProviderTypes
        /\ \E row \in BagToSet(identities) :
              /\ row.ID = audit[i].identity_id
              /\ row.UserID = audit[i].actor
              /\ row.Provider = audit[i].provider

\* The users that own a row of one external account.
Owners(table, providerType, subject) ==
    { row.UserID : row \in KeyRows(table, providerType, subject) }

\* C14: every committed identity belongs to exactly one user, and no step of
\* any request removes or changes a committed identity or gives an account
\* that has an owner another one.
C14_OwnerImmutable ==
    /\ [](\A row \in BagToSet(identities) :
            /\ row.UserID \in Users
            /\ Owners(identities, row.Provider, row.ProviderID) = {row.UserID}
            /\ \A other \in BagToSet(identities) : other.ID = row.ID => other = row)
    /\ [][\A row \in BagToSet(identities) :
            /\ CopiesIn(row, identities') = CopiesIn(row, identities)
            /\ Owners(identities', row.Provider, row.ProviderID) = {row.UserID}]_vars

\* Both accounts are linked, one of them to U, and a request of another user
\* for an account that has an owner was rejected.
C14_Witness ==
    /\ BagCardinality(identities) = 2
    /\ \E row \in BagToSet(identities) : row.UserID = "U"
    /\ \E r \in Requests : req[r].resp = AnotherUserError

\* C15: a request whose lookup inside the transaction returns an error other
\* than "not found" ends in that step with the internal error "Database error
\* finding identity"; it has written nothing, it creates no identity and the
\* committed state is unchanged.
C15_LookupErrorIsInternal ==
    [][\A r \in Requests :
          ( /\ req[r].pc = "tx_find"
            /\ req'[r] # req[r]
            /\ req'[r].terr \notin {"nil", "IdentityNotFoundError"} )
          => ( /\ req'[r].pc = "idle"
               /\ req'[r].resp = LookupError
               /\ req'[r].newIdentity = NoIdentity
               /\ req[r].tx = EmptyTx
               /\ req'[r].tx = EmptyTx
               /\ UNCHANGED Committed )]_vars

\* The lookup of an account failed while identities were committed.
C15_Witness ==
    \E r \in Requests :
        /\ req[r].pc = "idle"
        /\ req[r].terr = "other"
        /\ req[r].resp.helper = "internalServerError"
        /\ identities # EmptyBag

\* The sequences that hold the elements of s in another order.
Reorderings(s) ==
    { [i \in DOMAIN s |-> s[f[i]]] : f \in Permutations(DOMAIN s) }

\* C16: a request that passes every other check passes the audience check if
\* and only if some non-blank acceptable client id equals some audience value,
\* and is otherwise answered "Unacceptable audience"; the answer is the same
\* for every reordering of the two sequences.
C16_AudienceCheck ==
    [][\A r \in Requests :
          ( /\ req[r].pc = "received"
            /\ req'[r] # req[r]
            /\ Verifiable(req[r].in)
            /\ ~NonceMismatch(req[r].in) )
          => LET acc == req[r].in.resolved.acceptableClientIDs
                 aud == req[r].in.token.Audience
                 passed == req'[r].pc = "tx_find"
             IN
               /\ passed <=> \E i \in DOMAIN acc, j \in DOMAIN aud :
                                 acc[i] # "" /\ acc[i] = aud[j]
               /\ ~passed => ( /\ req'[r].pc = "idle"
                               /\ req'[r].resp = UnacceptableAudienceError )
               /\ \A acc2 \in Reorderings(acc), aud2 \in Reorderings(aud) :
                      correctAudience(acc2, aud2) = passed]_vars

\* The check passed on the last acceptable id and the last audience value,
\* after a blank id, a blank audience value and a duplicate.
C16_Witness ==
    \E r \in Requests :
        /\ req[r].pc = "tx_find"
        /\ req[r].in.resolved.acceptableClientIDs = <<"", "clientB", "clientA">>
        /\ req[r].in.token.Audience = <<"", "", "clientA">>

\* The first stage, in the stated order, that fails for a request.
FirstFailingStage(in) ==
    IF ~ParamsValid(in.params) THEN "request validation"
    ELSE IF in.resolved.err THEN "provider resolution"
    ELSE IF in.token.err THEN "token verification"
    ELSE IF ~AudienceMatches(in) THEN "audience match"
    ELSE IF NonceMismatch(in) THEN "nonce validation"
    ELSE "none"

\* The errors of each stage before the transaction.
StageErrors(stage) ==
    IF stage = "request validation"
    THEN { badRequestError("ErrorCodeValidationFailed", "id_token is required"),
           badRequestError("ErrorCodeValidationFailed",
                           "provider or client_id and issuer are required") }
    ELSE IF stage = "provider resolution" THEN { rawError("getProvider") }
    ELSE IF stage = "token verification"
    THEN { oauthError("invalid_request", "Bad ID token") }
    ELSE IF stage = "audience match" THEN { UnacceptableAudienceError }
    ELSE IF stage = "nonce validation"
    THEN { oauthError("invalid_nonce", "Invalid nonce"),
           oauthError("invalid_request", "Invalid nonce") }
    ELSE {}

\* The position that follows each position of a request that goes on.
NextStep(pc) ==
    IF pc = "received" THEN "tx_find"
    ELSE IF pc = "tx_find" THEN "tx_create"
    ELSE IF pc = "tx_create" THEN "tx_meta"
    ELSE IF pc = "tx_meta" THEN "tx_providers"
    ELSE IF pc = "tx_providers" THEN "tx_audit"
    ELSE IF pc = "tx_audit" THEN "tx_commit"
    ELSE "idle"

\* C17: an authenticated request is answered with the error of the first of
\* the stages request validation, provider resolution, token verification,
\* audience match and nonce validation that fails, and enters the transaction
\* only when none fails; in the transaction the lookup and conflict check come
\* first and the writes after them; a request that fails at any step ends
\* there, and nothing is written before the lookup has passed.
C17_StageOrder ==
    /\ [](\A r \in Requests :
            req[r].tx # EmptyTx =>
                req[r].pc \in {"tx_meta", "tx_providers", "tx_audit", "tx_commit"})
    /\ [][\A r \in Requests :
            /\ ( /\ req[r].pc = "received"
                 /\ req'[r] # req[r]
                 /\ req[r].in.user # NoUser )
               => LET stage == FirstFailingStage(req[r].in) IN
                    IF stage = "none"
                    THEN req'[r].pc = "tx_find" /\ req'[r].resp = NoResponse
                    ELSE /\ req'[r].pc = "idle"
                         /\ req'[r].resp \in StageErrors(stage)
                         /\ UNCHANGED Committed
            /\ (req[r].pc # "idle" /\ req'[r] # req[r])
               => \/ req'[r].pc = "idle"
                  \/ /\ req'[r].pc = NextStep(req[r].pc)
                     /\ req'[r].resp = NoResponse
                     /\ UNCHANGED Committed]_vars

\* Provider resolution failed for a request that came after a committed link.
C17_Witness ==
    \E r \in Requests :
        /\ req[r].resp = rawError("getProvider")
        /\ identities # EmptyBag

\* C18: a request is about to insert an identity only right after its own
\* lookup, made as the first step of its transaction for the account of the
\* row, returned "not found" when no row of the account was committed, and
\* with nothing written by the request in between; an identity is inserted
\* only by such a request, and it is the row of the account looked up.
C18_LookupBeforeInsert ==
    /\ [](\A r \in Requests :
            req[r].pc = "tx_create" =>
              /\ req[r].terr = "IdentityNotFoundError"
              /\ req[r].tx = EmptyTx
              /\ req[r].newIdentity.Provider = req[r].providerType
              /\ req[r].newIdentity.ProviderID = req[r].Subject)
    /\ [][\A r \in Requests :
            /\ (req'[r].pc = "tx_create" /\ req'[r] # req[r])
               => ( /\ req[r].pc = "tx_find"
                    /\ req[r].tx = EmptyTx
                    /\ req'[r].Subject = req[r].Subject
                    /\ req'[r].providerType = req[r].providerType
                    /\ KeyRows(identities, req[r].providerType, req[r].Subject) = {} )
            /\ (req'[r].tx.identities # req[r].tx.identities /\ req'[r].pc # "idle")
               => ( /\ req[r].pc = "tx_create"
                    /\ req'[r].tx.identities = <<req[r].newIdentity>> )
            /\ (req[r].pc = "received" /\ req'[r] # req[r])
               => ( req'[r].terr = "nil" /\ req'[r].newIdentity = NoIdentity )]_vars

\* A request has inserted its row after a lookup that found nothing, while
\* another account is already linked.
C18_Witness ==
    \E r \in Requests :
        /\ req[r].pc = "tx_meta"
        /\ req[r].terr = "IdentityNotFoundError"
        /\ req[r].tx.identities = <<req[r].newIdentity>>
        /\ identities # EmptyBag

\* The map "after" is the map "before" overridden by the claims: every claim
\* key with the claim's value, every other key of "before" with its value, and
\* no other key.
Overridden(before, claims, after) ==
    /\ DOMAIN after = DOMAIN before \cup DOMAIN claims
    /\ \A k \in DOMAIN claims : after[k] = claims[k]
    /\ \A k \in DOMAIN before \ DOMAIN claims : after[k] = before[k]

\* C19: the metadata a successful link commits for its user is the user's
\* committed metadata at the time the request arrived, overridden by the claims
\* of the token: the request loads the committed map when it arrives, changes
\* it only in the metadata step and there by overriding it with the claims,
\* and commits that map; no other step changes any user's committed metadata
\* and a commit leaves every other user's metadata as it is.
C19_MetaDataMerged ==
    [][/\ \A r \in Requests :
            LET u == req[r].user.ID
                before == req[r].user.UserMetaData
                after == req'[r].user.UserMetaData
            IN
              /\ (req[r].pc = "idle" /\ req'[r].pc = "received"
                      /\ req'[r].in.user # NoUser)
                 => after = users[req'[r].in.user].UserMetaData
              /\ (req[r].pc \in {"received", "tx_find", "tx_create",
                                  "tx_providers", "tx_audit"}
                      /\ req'[r].pc # "idle")
                 => after = before
              /\ (req[r].pc = "tx_meta" /\ req'[r].pc # "idle" /\ req'[r] # req[r])
                 => /\ Overridden(before,
                                  ClaimsOf(<<req[r].providerType, req[r].Subject>>),
                                  after)
                    /\ req'[r].tx.UserMetaData = <<after>>
              /\ (req[r].pc = "tx_commit" /\ req'[r].resp = sendJSON)
                 => /\ users'[u].UserMetaData = before
                    /\ req[r].tx.UserMetaData = <<before>>
                    /\ req'[r].body.UserMetaData = before
                    /\ \A v \in Users \ {u} : users'[v] = users[v]
       /\ (users' # users)
            => \E r \in Requests : req[r].pc = "tx_commit" /\ req'[r].resp = sendJSON]_vars

\* A link of U is committed whose claims overwrote the key "name" and inserted
\* the key "email"; the key "plan" and the metadata of V are as they were.
C19_Witness ==
    /\ users["U"].UserMetaData = [plan |-> "free", name |-> "n3", email |-> "e3"]
    /\ users["V"].UserMetaData = InitialMetaData("V")
    /\ \E r \in Requests : req[r].resp = sendJSON /\ req[r].body.ID = "U"

\* C20: in every committed state, for every identity a user owns, the user's
\* provider list holds the identity's provider type exactly once and the
\* user's metadata holds every claim key of the identity's token.
C20_NoLostUpdate ==
    \A row \in BagToSet(identities) :
        LET u == row.UserID IN
          /\ Cardinality({ i \in DOMAIN users[u].Providers :
                             users[u].Providers[i] = row.Provider }) = 1
          /\ DOMAIN ClaimsOf(<<row.Provider, row.ProviderID>>)
                \subseteq DOMAIN users[u].UserMetaData

====
